---------------------------- MODULE Spec2Model ----------------------------
(***************************************************************************)
(* A state-machine model of src/model.py: the character tokenizer, the     *)
(* arithmetic pair generators, the run_epoch training loop, greedy_decode, *)
(* the LabelSmoothing criterion, padding_batch and Batch, the rate         *)
(* schedule, the checkpointing training drivers and dataset_range.         *)
(*                                                                         *)
(* Characters are modelled by their code points (Python's ord), strings by *)
(* sequences of code points, Python lists by 1-based sequences (a Python   *)
(* index i is the TLA+ index i + 1).  Each component has its own           *)
(* variables and its own specification; a specification leaves the other   *)
(* components' variables at their idle values.                             *)
(***************************************************************************)
EXTENDS Integers, Sequences, FiniteSets, TLC

VARIABLES
    \* ---- tokenizer (to_token / from_token) ----
    tk_pc,        \* "start" | "to_token" | "from_token" | "from_to" | "to_from"
    tk_arg,       \* the argument of the first call: a character or a token id
    tk_res,       \* the value returned by the last call
    tk_err        \* "none" | "AssertionError" | "IndexError"

tokVars == <<tk_pc, tk_arg, tk_res, tk_err>>

VARIABLES
    \* ---- pair generators (generate_one_pair, sum_two_str, ...) ----
    gp_pc,        \* "start" | "done"
    gp_fn,        \* the function called
    gp_left1,     \* integer operands (generate_one_pair, generate_one_pair1)
    gp_left2,
    gp_operator,  \* generate_one_pair's operator: a character or a list index
    gp_str1,      \* string operands (sum_two_str)
    gp_str2,
    gp_text1,     \* sum_two_str's padded operands
    gp_text2,
    gp_text,      \* the problem text returned
    gp_target,    \* the target text returned (sum_two_str's res)
    gp_err        \* "none" | "ValueError" | "IndexError" | "TypeError"

genVars == <<gp_pc, gp_fn, gp_left1, gp_left2, gp_operator, gp_str1, gp_str2,
             gp_text1, gp_text2, gp_text, gp_target, gp_err>>

VARIABLES
    \* ---- run_epoch ----
    ep_pc,            \* "ready" (no call in progress) | "loop" | "returned"
    ep_ncalls,        \* run_epoch calls made so far
    ep_mode,          \* arguments of the call in progress (or the last one)
    ep_accum_iter,
    ep_data_iter,     \* the batches data_iter yields, in order
    ep_ts_ref,        \* the object train_state is bound to: "default" | "caller"
    ep_train_states,  \* the two TrainState objects: the default argument's
                      \* instance, created once at definition time, and the
                      \* caller's
    ep_i,             \* batches consumed by the call
    ep_total_tokens,  \* locals of run_epoch
    ep_total_loss,
    ep_tokens,
    ep_n_accum,
    ep_grad,          \* batches whose gradients are summed in the parameters'
                      \* .grad since the last zero_grad
    ep_log,           \* the calls the current run_epoch call has made
    ep_entry,         \* TrainState objects and ep_grad as the call found them
    ep_ret            \* what the last call returned

epochVars == <<ep_pc, ep_ncalls, ep_mode, ep_accum_iter, ep_data_iter, ep_ts_ref,
               ep_train_states, ep_i, ep_total_tokens, ep_total_loss, ep_tokens,
               ep_n_accum, ep_grad, ep_log, ep_entry, ep_ret>>

VARIABLES
    \* ---- greedy_decode ----
    gd_pc,            \* "start" | "loop" | "returned"
    gd_max_len,       \* arguments
    gd_start_symbol,
    gd_pad,
    gd_memory,        \* the memory model.encode returned (0: none yet)
    gd_encodes,       \* model.encode calls made
    gd_ys,            \* the output so far (row 0 of the [1, len] tensor)
    gd_i,             \* loop iterations done
    gd_ys_mask,       \* the mask of the last model.decode call
    gd_decodes        \* the model.decode calls made: the memory and ys each
                      \* was given and the next_word taken from it

decVars == <<gd_pc, gd_max_len, gd_start_symbol, gd_pad, gd_memory, gd_encodes,
             gd_ys, gd_i, gd_ys_mask, gd_decodes>>

VARIABLES
    \* ---- LabelSmoothing ----
    ls_pc,            \* "start" | "constructed" | "forwarded" | "failed"
    ls_size,          \* arguments of LabelSmoothing(size, padding_idx, smoothing);
    ls_padding_idx,   \* smoothing is ls_smoothing / SmoothDen
    ls_smoothing,
    ls_self,          \* the criterion object's fields
    ls_cols,          \* x.size(1) of the forward call
    ls_target,        \* target of the forward call
    ls_err            \* "none" | "AssertionError" | "ZeroDivisionError" | "RuntimeError"

lsVars == <<ls_pc, ls_size, ls_padding_idx, ls_smoothing, ls_self, ls_cols,
            ls_target, ls_err>>

VARIABLES
    \* ---- padding_batch and Batch ----
    bt_pc,        \* "start" | "padded" | "batch"
    bt_src_batch, \* the source rows: a list of token lists
    bt_tgt_batch, \* the target rows
    bt_data,      \* padding_batch(src_batch)
    bt_tgt_data,  \* padding_batch(tgt_batch)
    bt_batch      \* the Batch object built from them

btVars == <<bt_pc, bt_src_batch, bt_tgt_batch, bt_data, bt_tgt_data, bt_batch>>

VARIABLES
    \* ---- rate, as LambdaLR calls it ----
    rt_pc,         \* "running"
    rt_model_size, \* rate's arguments
    rt_factor,
    rt_warmup,
    rt_step,       \* the scheduler's step count
    rt_lr,         \* rate(step, ...)
    rt_prev        \* the rate of the step before

rtVars == <<rt_pc, rt_model_size, rt_factor, rt_warmup, rt_step, rt_lr, rt_prev>>

VARIABLES
    \* ---- save_model / load_model and the training drivers ----
    ck_pc,        \* "start" | "loop" | "finished" | "failed"
    ck_driver,    \* the driver that runs
    ck_files,     \* the checkpoint folder: what each path holds
    ck_model,     \* the model's parameters
    ck_epoch,     \* the drivers' loop variables
    ck_phase,
    ck_inner,
    ck_best_loss,
    ck_best_path,
    ck_log,       \* the evaluation losses printed so far, with their paths
    ck_err        \* "none" | "TypeError" | "ZeroDivisionError"

ckVars == <<ck_pc, ck_driver, ck_files, ck_model, ck_epoch, ck_phase, ck_inner,
            ck_best_loss, ck_best_path, ck_log, ck_err>>

VARIABLES
    \* ---- dataset_range ----
    ds_pc,        \* "start" | "iterating" | "exhausted" | "failed"
    ds_args,      \* the arguments of the call
    ds_x_items,   \* the lists the loops run over
    ds_y_items,
    ds_xi,        \* the position of the loops: indexes into x_items, y_items
    ds_yj,
    ds_src_batch, \* the rows collected since the last yield
    ds_tgt_batch,
    ds_kept,      \* the pairs that were not skipped, in the order met
    ds_yielded,   \* the Batch objects yielded so far
    ds_err        \* "none" | "ValueError"

dsVars == <<ds_pc, ds_args, ds_x_items, ds_y_items, ds_xi, ds_yj, ds_src_batch,
            ds_tgt_batch, ds_kept, ds_yielded, ds_err>>

vars == <<tokVars, genVars, epochVars, decVars, lsVars, btVars, rtVars, ckVars, dsVars>>

\* What each component's actions leave alone.
notTok == <<genVars, epochVars, decVars, lsVars, btVars, rtVars, ckVars, dsVars>>
notGen == <<tokVars, epochVars, decVars, lsVars, btVars, rtVars, ckVars, dsVars>>
notEpoch == <<tokVars, genVars, decVars, lsVars, btVars, rtVars, ckVars, dsVars>>
notDec == <<tokVars, genVars, epochVars, lsVars, btVars, rtVars, ckVars, dsVars>>
notLs == <<tokVars, genVars, epochVars, decVars, btVars, rtVars, ckVars, dsVars>>
notBatch == <<tokVars, genVars, epochVars, decVars, lsVars, rtVars, ckVars, dsVars>>
notRate == <<tokVars, genVars, epochVars, decVars, lsVars, btVars, ckVars, dsVars>>
notDriver == <<tokVars, genVars, epochVars, decVars, lsVars, btVars, rtVars, dsVars>>
notDataset == <<tokVars, genVars, epochVars, decVars, lsVars, btVars, rtVars, ckVars>>

-----------------------------------------------------------------------------
(* Code points of the characters the program names.                        *)
OrdDollar == 36     \* '$'
OrdPlus   == 43     \* '+'
OrdMinus  == 45     \* '-'
Ord0      == 48     \* '0'
Ord9      == 57     \* '9'
OrdEquals == 61     \* '='
OrdA      == 65     \* 'A'
OrdJ      == 74     \* 'J'
OrdCaret  == 94     \* '^'
OrdTilde  == 126    \* '~'

(* The largest code point of the characters the model feeds the tokenizer. *)
MaxChar == 127

Chars == 0..MaxChar

Max(a, b) == IF a >= b THEN a ELSE b

-----------------------------------------------------------------------------
(* Module-level constants of model.py.                                     *)

operators == <<OrdTilde, OrdCaret, OrdDollar, OrdPlus, OrdMinus, OrdEquals>>

start_symbol == 1

pad_symbol == 0

voca_size == Len(operators) + Ord9 - Ord0 + 1 + OrdJ - OrdA + 1

\* operators_function[k] for the Python index k: "add", "sub", "None", or
\* "IndexError" past the end of the five-entry list.
operators_function(k) ==
    IF k < 0 \/ k > 4 THEN "IndexError"
    ELSE <<"None", "None", "add", "sub", "None">>[k + 1]

\* list.index(x): the Python index of the first occurrence of x, or -1 for
\* Python's ValueError.
RECURSIVE IndexFrom(_, _, _)
IndexFrom(list, x, k) ==
    IF k > Len(list) THEN -1
    ELSE IF list[k] = x THEN k - 1
    ELSE IndexFrom(list, x, k + 1)

ListIndex(list, x) == IndexFrom(list, x, 1)

InOperators(ch) == \E k \in 1..Len(operators) : operators[k] = ch

-----------------------------------------------------------------------------
(* Tokenizer.                                                              *)

\* A from_token with the letter branch taken one id too early.
from_token_early(token) ==
    IF token < Len(operators) THEN
        IF token >= 0 THEN [err |-> "none", val |-> operators[token + 1]]
        ELSE IF token >= -Len(operators)
             THEN [err |-> "none", val |-> operators[token + Len(operators) + 1]]
        ELSE [err |-> "IndexError", val |-> 0]
    ELSE IF token >= (Ord9 - Ord0) + Len(operators)
         THEN [err |-> "none",
               val |-> token - ((Ord9 - Ord0) + Len(operators)) + OrdA - 1]
    ELSE [err |-> "none", val |-> Ord0 + token - Len(operators)]

\* to_token(ch): the id, or the failed assertion.
to_token(ch) ==
    IF InOperators(ch) THEN [err |-> "none", val |-> ListIndex(operators, ch)]
    ELSE LET res == IF ch > Ord9
                    THEN (ch - OrdA + 10) + Len(operators)
                    ELSE (ch - Ord0) + Len(operators)
         IN  IF res < voca_size THEN [err |-> "none", val |-> res]
             ELSE [err |-> "AssertionError", val |-> 0]

\* from_token(token): the character; a negative index into operators counts
\* from the end of the list, and fails below -len(operators).
from_token(token) ==
    IF token < Len(operators) THEN
        IF token >= 0 THEN [err |-> "none", val |-> operators[token + 1]]
        ELSE IF token >= -Len(operators)
             THEN [err |-> "none", val |-> operators[token + Len(operators) + 1]]
        ELSE [err |-> "IndexError", val |-> 0]
    ELSE IF token > to_token(Ord9).val
         THEN [err |-> "none", val |-> token - to_token(Ord9).val + OrdA - 1]
    ELSE [err |-> "none", val |-> Ord0 + token - Len(operators)]

RECURSIVE to_tokens(_)
to_tokens(text) ==
    IF text = <<>> THEN <<>>
    ELSE <<to_token(Head(text)).val>> \o to_tokens(Tail(text))

\* The token ids the model feeds from_token: every id of the vocabulary and
\* the two ids next to it on either side.
TokenArgs == (-2)..(voca_size + 1)

TokIdle == tk_pc = "idle" /\ tk_arg = 0 /\ tk_res = 0 /\ tk_err = "none"

GenIdle ==
    /\ gp_pc = "idle" /\ gp_fn = "none" /\ gp_left1 = 0 /\ gp_left2 = 0
    /\ gp_operator = 0 /\ gp_str1 = <<>> /\ gp_str2 = <<>>
    /\ gp_text1 = <<>> /\ gp_text2 = <<>> /\ gp_text = <<>>
    /\ gp_target = <<>> /\ gp_err = "none"

\* TrainState(): the class attributes, all 0.
TrainState == [step |-> 0, accum_step |-> 0, samples |-> 0, tokens |-> 0]

EpochIdle ==
    /\ ep_pc = "idle" /\ ep_ncalls = 0 /\ ep_mode = "none" /\ ep_accum_iter = 1
    /\ ep_data_iter = <<>> /\ ep_ts_ref = "default"
    /\ ep_train_states = [default |-> TrainState, caller |-> TrainState]
    /\ ep_i = 0 /\ ep_total_tokens = 0 /\ ep_total_loss = 0 /\ ep_tokens = 0
    /\ ep_n_accum = 0 /\ ep_grad = 0 /\ ep_log = <<>>
    /\ ep_entry = [states |-> [default |-> TrainState, caller |-> TrainState],
                   grad |-> 0]
    /\ ep_ret = [err |-> "none", num |-> 0, den |-> 1, train_state |-> "default"]

DecIdle ==
    /\ gd_pc = "idle" /\ gd_max_len = 0 /\ gd_start_symbol = 0 /\ gd_pad = 0
    /\ gd_memory = 0 /\ gd_encodes = 0 /\ gd_ys = <<>> /\ gd_i = 0
    /\ gd_ys_mask = <<>> /\ gd_decodes = <<>>

\* The fields of a criterion that has not been constructed.
NoCriterion ==
    [constructed |-> FALSE, size |-> 0, padding_idx |-> 0,
     confidence |-> <<0, 1>>, smoothing |-> <<0, 1>>, true_dist |-> <<>>]

LsIdle ==
    /\ ls_pc = "idle" /\ ls_size = 0 /\ ls_padding_idx = 0 /\ ls_smoothing = 0
    /\ ls_self = NoCriterion /\ ls_cols = 0 /\ ls_target = <<>> /\ ls_err = "none"

\* The fields of a Batch that has not been built.
NoBatch ==
    [src |-> <<>>, src_mask |-> <<>>, tgt |-> <<>>, tgt_y |-> <<>>,
     tgt_mask |-> <<>>, ntokens |-> 0]

BatchIdle ==
    /\ bt_pc = "idle" /\ bt_src_batch = <<>> /\ bt_tgt_batch = <<>>
    /\ bt_data = <<>> /\ bt_tgt_data = <<>> /\ bt_batch = NoBatch

RateIdle ==
    /\ rt_pc = "idle" /\ rt_model_size = 1 /\ rt_factor = 1 /\ rt_warmup = 1
    /\ rt_step = 0 /\ rt_lr = <<1, 1>> /\ rt_prev = <<1, 1>>

\* best_path = None.
NoPath == [kind |-> "None", epoch |-> 0, inner |-> 0]

DriverIdle ==
    /\ ck_pc = "idle" /\ ck_driver = "none" /\ ck_files = <<>> /\ ck_model = 0
    /\ ck_epoch = 0 /\ ck_phase = "none" /\ ck_inner = 0 /\ ck_best_loss = 0
    /\ ck_best_path = NoPath /\ ck_log = <<>> /\ ck_err = "none"

\* An argument left at its default None.
NoCount == [given |-> FALSE, val |-> 0]
NoItems == [given |-> FALSE, items |-> <<>>]

DatasetIdle ==
    /\ ds_pc = "idle"
    /\ ds_args = [start |-> 0, end |-> 0, batch_size |-> 1, sample |-> 0,
                  count |-> NoCount, x_items |-> NoItems, y_items |-> NoItems]
    /\ ds_x_items = <<>> /\ ds_y_items = <<>> /\ ds_xi = 0 /\ ds_yj = 0
    /\ ds_src_batch = <<>> /\ ds_tgt_batch = <<>> /\ ds_kept = <<>>
    /\ ds_yielded = <<>> /\ ds_err = "none"

TokInit ==
    /\ tk_pc = "start"
    /\ tk_arg \in Chars \cup TokenArgs
    /\ tk_res = 0
    /\ tk_err = "none"
    /\ GenIdle /\ EpochIdle /\ DecIdle /\ LsIdle /\ BatchIdle /\ RateIdle /\ DriverIdle /\ DatasetIdle

\* to_token(ch) on a character.
ToToken ==
    /\ tk_pc = "start"
    /\ tk_arg \in Chars
    /\ tk_pc' = "to_token"
    /\ tk_res' = to_token(tk_arg).val
    /\ tk_err' = to_token(tk_arg).err
    /\ UNCHANGED <<tk_arg, notTok>>

\* from_token(token) on a token id.
FromToken ==
    /\ tk_pc = "start"
    /\ tk_arg \in TokenArgs
    /\ tk_pc' = "from_token"
    /\ tk_res' = from_token(tk_arg).val
    /\ tk_err' = from_token(tk_arg).err
    /\ UNCHANGED <<tk_arg, notTok>>

\* from_token(to_token(ch)): from_token on the id to_token returned.
FromTokenOfResult ==
    /\ tk_pc = "to_token"
    /\ tk_err = "none"
    /\ tk_pc' = "from_to"
    /\ tk_res' = from_token(tk_res).val
    /\ tk_err' = from_token(tk_res).err
    /\ UNCHANGED <<tk_arg, notTok>>

\* to_token(from_token(t)): to_token on the character from_token returned.
ToTokenOfResult ==
    /\ tk_pc = "from_token"
    /\ tk_err = "none"
    /\ tk_pc' = "to_from"
    /\ tk_res' = to_token(tk_res).val
    /\ tk_err' = to_token(tk_res).err
    /\ UNCHANGED <<tk_arg, notTok>>

TokNext == ToToken \/ FromToken \/ FromTokenOfResult \/ ToTokenOfResult

SpecTokenizer == TokInit /\ [][TokNext]_vars

\* The fixed alphabet: the operator symbols, the digits, the letters A..J.
Alphabet == {operators[k] : k \in 1..Len(operators)} \cup (Ord0..Ord9) \cup (OrdA..OrdJ)

TokenIds == 0..(voca_size - 1)

\* C1: the tokenizer is a bijection between the 26 alphabet symbols and the
\* ids 0..voca_size-1: to_token maps every alphabet character to an id of the
\* vocabulary, from_token maps every id to an alphabet character, both round
\* trips from_token(to_token(c)) = c and to_token(from_token(t)) = t hold,
\* and '~' gets the pad id 0, '^' the start id 1.
Thm_C1_TokenizerBijection ==
    /\ Cardinality(Alphabet) = 26
    /\ voca_size = 26
    /\ (tk_pc = "to_token" /\ tk_arg \in Alphabet)
          => (tk_err = "none" /\ tk_res \in TokenIds)
    /\ (tk_pc = "to_token" /\ tk_arg = OrdTilde) => tk_res = pad_symbol
    /\ (tk_pc = "to_token" /\ tk_arg = OrdCaret) => tk_res = start_symbol
    /\ (tk_pc = "from_to" /\ tk_arg \in Alphabet)
          => (tk_err = "none" /\ tk_res = tk_arg)
    /\ (tk_pc = "from_token" /\ tk_arg \in TokenIds)
          => (tk_err = "none" /\ tk_res \in Alphabet)
    /\ (tk_pc = "to_from" /\ tk_arg \in TokenIds)
          => (tk_err = "none" /\ tk_res = tk_arg)

\* The round trip has been taken on the first letter, 'A' -> 16 -> 'A'.
Wit_C1_RoundTripLetter ==
    tk_pc = "from_to" /\ tk_arg = OrdA /\ tk_res = OrdA /\ tk_err = "none"

\* The first call has returned the id of a character outside the alphabet
\* (':' -> 9).
Wit_C2_ColonAccepted ==
    tk_pc = "to_token" /\ tk_arg = Ord9 + 1 /\ tk_res = 9 /\ tk_err = "none"

\* C2: to_token fails (assertion) for every character outside the alphabet.
Claim_C2_RejectsOutsideAlphabet ==
    (tk_pc = "to_token" /\ tk_arg \notin Alphabet) => tk_err = "AssertionError"

-----------------------------------------------------------------------------
(* Pair generators.                                                        *)

\* The largest integer operand the model draws.
MaxOperand == 12

\* The longest first and second string operand of sum_two_str.
MaxLen1 == 2
MaxLen2 == 1

Operands == 0..MaxOperand

DigitStrings(n) == UNION {[1..k -> Ord0..Ord9] : k \in 0..n}

\* generate_one_pair's operator argument given as a string: each operator
\* symbol, and a character that is no operator.
OperatorChars == {operators[k] : k \in 1..Len(operators)} \cup {Ord0}

\* generate_one_pair's operator argument given as a list index.
OperatorIndexes == 0..Len(operators)

\* str(n) of an integer.
RECURSIVE NatToStr(_)
NatToStr(n) ==
    IF n < 10 THEN <<Ord0 + n>>
    ELSE NatToStr(n \div 10) \o <<Ord0 + (n % 10)>>

IntToStr(n) == IF n < 0 THEN <<OrdMinus>> \o NatToStr(-n) ELSE NatToStr(n)

\* ''.join(list(reversed(s)))
RECURSIVE Reversed(_)
Reversed(s) == IF s = <<>> THEN <<>> ELSE Reversed(Tail(s)) \o <<Head(s)>>

Repeat(ch, n) == [k \in 1..n |-> ch]

\* generate_one_pair(left1, left2, operator); isStr tells whether operator
\* is a string or a list index.
generate_one_pair(left1, left2, operator, isStr) ==
    LET operator_index == IF isStr THEN ListIndex(operators, operator) ELSE operator
        found == IF isStr THEN operator_index >= 0
                 ELSE operator_index < Len(operators)
        symbol == IF isStr THEN operator ELSE operators[operator_index + 1]
        fn == operators_function(operator_index)
        target == IF fn = "add" THEN left1 + left2 ELSE left1 - left2
    IN  IF ~found
        THEN [err |-> IF isStr THEN "ValueError" ELSE "IndexError",
              text |-> <<>>, target |-> <<>>]
        ELSE IF fn = "IndexError"
        THEN [err |-> "IndexError", text |-> <<>>, target |-> <<>>]
        ELSE IF fn = "None"
        THEN [err |-> "TypeError", text |-> <<>>, target |-> <<>>]
        ELSE [err |-> "none",
              text |-> Reversed(IntToStr(left1)) \o <<symbol>>
                         \o Reversed(IntToStr(left2)) \o <<OrdEquals>>,
              target |-> Reversed(IntToStr(target))]

\* A padding_str that appends the zeros whatever the position.
padding_str_right(text, length, position) ==
    IF length > Len(text) THEN text \o Repeat(Ord0, length - Len(text)) ELSE text

padding_str(text, length, position) ==
    IF position = "left"
    THEN IF length > Len(text) THEN Repeat(Ord0, length - Len(text)) \o text ELSE text
    ELSE IF position = "right"
    THEN IF length > Len(text) THEN text \o Repeat(Ord0, length - Len(text)) ELSE text
    ELSE text

\* One column of sum_two_str: the character for the digits ch1 and ch2.
sum_column(ch1, ch2) ==
    LET ch == (ch1 - Ord0) + (ch2 - Ord0) + Ord0
    IN  IF ch > Ord9 THEN ch - Ord9 + OrdA ELSE ch

sum_two_str(str1, str2) ==
    LET length == Max(Len(str1), Len(str2))
        text1 == padding_str(str1, length, "left")
        text2 == padding_str(str2, length, "left")
    IN  [text1 |-> text1, text2 |-> text2,
         res |-> [k \in 1..length |-> sum_column(text1[k], text2[k])]]

generate_one_pair1(left1, left2) ==
    LET r == sum_two_str(IntToStr(left1), IntToStr(left2))
    IN  [text |-> r.text1 \o <<OrdPlus>> \o r.text2 \o <<OrdEquals>>,
         target |-> r.res]

GenInit ==
    /\ gp_pc = "start"
    /\ gp_text1 = <<>> /\ gp_text2 = <<>> /\ gp_text = <<>>
    /\ gp_target = <<>> /\ gp_err = "none"
    /\ \/ /\ gp_fn = "generate_one_pair(str)"
          /\ gp_left1 \in Operands /\ gp_left2 \in Operands
          /\ gp_operator \in OperatorChars
          /\ gp_str1 = <<>> /\ gp_str2 = <<>>
       \/ /\ gp_fn = "generate_one_pair(int)"
          /\ gp_left1 \in Operands /\ gp_left2 \in Operands
          /\ gp_operator \in OperatorIndexes
          /\ gp_str1 = <<>> /\ gp_str2 = <<>>
       \/ /\ gp_fn = "generate_one_pair1"
          /\ gp_left1 \in Operands /\ gp_left2 \in Operands
          /\ gp_operator = 0
          /\ gp_str1 = <<>> /\ gp_str2 = <<>>
       \/ /\ gp_fn = "sum_two_str"
          /\ gp_left1 = 0 /\ gp_left2 = 0 /\ gp_operator = 0
          /\ gp_str1 \in DigitStrings(MaxLen1)
          /\ gp_str2 \in DigitStrings(MaxLen2)
    /\ TokIdle /\ EpochIdle /\ DecIdle /\ LsIdle /\ BatchIdle /\ RateIdle /\ DriverIdle /\ DatasetIdle

GenerateOnePair ==
    /\ gp_pc = "start"
    /\ gp_fn \in {"generate_one_pair(str)", "generate_one_pair(int)"}
    /\ LET r == generate_one_pair(gp_left1, gp_left2, gp_operator,
                                  gp_fn = "generate_one_pair(str)")
       IN  /\ gp_text' = r.text
           /\ gp_target' = r.target
           /\ gp_err' = r.err
    /\ gp_pc' = "done"
    /\ UNCHANGED <<gp_fn, gp_left1, gp_left2, gp_operator, gp_str1, gp_str2,
                   gp_text1, gp_text2, notGen>>

GenerateOnePair1 ==
    /\ gp_pc = "start"
    /\ gp_fn = "generate_one_pair1"
    /\ LET r == generate_one_pair1(gp_left1, gp_left2)
       IN  /\ gp_text' = r.text
           /\ gp_target' = r.target
    /\ gp_pc' = "done"
    /\ UNCHANGED <<gp_fn, gp_left1, gp_left2, gp_operator, gp_str1, gp_str2,
                   gp_text1, gp_text2, gp_err, notGen>>

SumTwoStr ==
    /\ gp_pc = "start"
    /\ gp_fn = "sum_two_str"
    /\ LET r == sum_two_str(gp_str1, gp_str2)
       IN  /\ gp_text1' = r.text1
           /\ gp_text2' = r.text2
           /\ gp_target' = r.res
    /\ gp_pc' = "done"
    /\ UNCHANGED <<gp_fn, gp_left1, gp_left2, gp_operator, gp_str1, gp_str2,
                   gp_text, gp_err, notGen>>

GenNext == GenerateOnePair \/ GenerateOnePair1 \/ SumTwoStr

SpecGenerators == GenInit /\ [][GenNext]_vars

\* C3: in sum_two_str a column whose digits sum to d > 9 yields the letter
\* 'A' + (d - 10): 10 yields 'A', 11 yields 'B', ...; sum_two_str("5","5")
\* has result "A".
Claim_C3_OverflowStartsAtA ==
    (gp_pc = "done" /\ gp_fn = "sum_two_str") =>
        \A k \in 1..Len(gp_target) :
            LET d == (gp_text1[k] - Ord0) + (gp_text2[k] - Ord0)
            IN  d > 9 => gp_target[k] = OrdA + (d - 10)

\* sum_two_str("5", "5") has returned ("5", "5", "B").
Wit_C3_FivePlusFive ==
    /\ gp_pc = "done" /\ gp_fn = "sum_two_str"
    /\ gp_str1 = <<Ord0 + 5>> /\ gp_str2 = <<Ord0 + 5>>
    /\ gp_target = <<OrdA + 1>>

\* C4: generate_one_pair applies the arithmetic of the named operator: the
\* target of '+' is the reversed decimal text of a + b, the target of '-'
\* that of a - b, and the text is reversed(a) op reversed(b) '='.
Claim_C4_OperatorArithmetic ==
    (gp_pc = "done" /\ gp_fn = "generate_one_pair(str)"
        /\ gp_operator \in {OrdPlus, OrdMinus}) =>
        /\ gp_err = "none"
        /\ gp_target = Reversed(IntToStr(IF gp_operator = OrdPlus
                                         THEN gp_left1 + gp_left2
                                         ELSE gp_left1 - gp_left2))
        /\ gp_text = Reversed(IntToStr(gp_left1)) \o <<gp_operator>>
                        \o Reversed(IntToStr(gp_left2)) \o <<OrdEquals>>

\* generate_one_pair(1, 2, '+') has returned ("1+2=", "1-").
Wit_C4_PlusSubtracts ==
    /\ gp_pc = "done" /\ gp_fn = "generate_one_pair(str)"
    /\ gp_left1 = 1 /\ gp_left2 = 2 /\ gp_operator = OrdPlus
    /\ gp_err = "none"
    /\ gp_text = <<Ord0 + 1, OrdPlus, Ord0 + 2, OrdEquals>>
    /\ gp_target = <<Ord0 + 1, OrdMinus>>

\* The character sum_two_str gives a column whose digits are d1 and d2.
ColumnChar(d1, d2) ==
    IF d1 + d2 <= 9 THEN Ord0 + d1 + d2 ELSE OrdA + (d1 + d2 - 9)

\* C12: sum_two_str pads the shorter operand with leading zeros, so that both
\* returned operands and the result have length max(len(str1), len(str2)),
\* and each character of the result is a function of the two digits at its
\* own position alone (no carry from another position).
Thm_C12_PaddedColumnwise ==
    (gp_pc = "done" /\ gp_fn = "sum_two_str") =>
        LET length == Max(Len(gp_str1), Len(gp_str2))
        IN  /\ Len(gp_text1) = length
            /\ Len(gp_text2) = length
            /\ Len(gp_target) = length
            /\ \A k \in 1..length :
                  /\ gp_text1[k] = IF k <= length - Len(gp_str1) THEN Ord0
                                   ELSE gp_str1[k - (length - Len(gp_str1))]
                  /\ gp_text2[k] = IF k <= length - Len(gp_str2) THEN Ord0
                                   ELSE gp_str2[k - (length - Len(gp_str2))]
                  /\ gp_target[k] = ColumnChar(gp_text1[k] - Ord0, gp_text2[k] - Ord0)

\* sum_two_str("95", "7") has returned ("95", "07", "9C"): the second
\* operand padded in front, and the 12 of the last column carried nowhere.
Wit_C12_PadAndNoCarry ==
    /\ gp_pc = "done" /\ gp_fn = "sum_two_str"
    /\ gp_str1 = <<Ord0 + 9, Ord0 + 5>> /\ gp_str2 = <<Ord0 + 7>>
    /\ gp_text1 = <<Ord0 + 9, Ord0 + 5>>
    /\ gp_text2 = <<Ord0, Ord0 + 7>>
    /\ gp_target = <<Ord0 + 9, OrdA + 3>>

-----------------------------------------------------------------------------
(* run_epoch.                                                              *)

\* The most batches one data_iter yields, the largest accum_iter, and the
\* most run_epoch calls of one run.
MaxBatches == 3
MaxAccum == 2
MaxCalls == 2

\* A progress line is printed when i % 40 == 1.
ReportEvery == 40

\* The batches a data_iter may yield: src rows, non-pad target tokens, and
\* the loss the model has on the batch.
BatchKinds == {[rows |-> 1, ntokens |-> 2, loss |-> 3],
               [rows |-> 2, ntokens |-> 3, loss |-> 5]}

DataIters == UNION {[1..n -> BatchKinds] : n \in 0..MaxBatches}

Modes == {"train", "train+log", "eval"}

Call(op, i, grad) == [op |-> op, i |-> i, grad |-> grad]

\* The mode test written `mode == "train" or "train+log"`, which Python
\* takes to be true of every mode.
is_training_truthy(mode) == mode = "train" \/ TRUE

\* mode == "train" or mode == "train+log"
is_training(mode) == mode = "train" \/ mode = "train+log"

\* i % accum_iter == 0
steps_optimizer(i, accum_iter) == i % accum_iter = 0

\* The training branch with scheduler.step() inside the accumulation test.
train_calls_sched_in_if(i, accum_iter, grad) ==
    <<Call("backward", i, grad + 1)>>
    \o (IF steps_optimizer(i, accum_iter)
        THEN <<Call("optimizer.step", i, grad + 1), Call("zero_grad", i, 0),
               Call("scheduler.step", i, 0)>>
        ELSE <<>>)

\* The calls of the training branch for batch i, entered with the gradients
\* of grad batches accumulated: backward adds the batch's gradients,
\* optimizer.step applies what is accumulated, zero_grad drops it.
train_calls(i, accum_iter, grad) ==
    <<Call("backward", i, grad + 1)>>
    \o (IF steps_optimizer(i, accum_iter)
        THEN <<Call("optimizer.step", i, grad + 1), Call("zero_grad", i, 0)>>
        ELSE <<>>)
    \o <<Call("scheduler.step", i, 0)>>

\* total_loss / total_tokens
Divide(num, den) ==
    IF den = 0 THEN [err |-> "ZeroDivisionError", num |-> 0, den |-> 1]
    ELSE [err |-> "none", num |-> num, den |-> den]

EpochInit ==
    /\ ep_pc = "ready" /\ ep_ncalls = 0 /\ ep_mode = "none" /\ ep_accum_iter = 1
    /\ ep_data_iter = <<>> /\ ep_ts_ref = "default"
    /\ ep_train_states = [default |-> TrainState, caller |-> TrainState]
    /\ ep_i = 0 /\ ep_total_tokens = 0 /\ ep_total_loss = 0 /\ ep_tokens = 0
    /\ ep_n_accum = 0 /\ ep_grad = 0 /\ ep_log = <<>>
    /\ ep_entry = [states |-> [default |-> TrainState, caller |-> TrainState],
                   grad |-> 0]
    /\ ep_ret = [err |-> "none", num |-> 0, den |-> 1, train_state |-> "default"]
    /\ TokIdle /\ GenIdle /\ DecIdle /\ LsIdle /\ BatchIdle /\ RateIdle /\ DriverIdle /\ DatasetIdle

\* A call of run_epoch up to the loop: the arguments are bound and the locals
\* set to 0.  train_state is the default argument's instance, a TrainState
\* the caller has just made, or one the caller passed before.
RunEpochCall ==
    /\ ep_pc = "ready"
    /\ ep_ncalls < MaxCalls
    /\ \E mode \in Modes, accum_iter \in 1..MaxAccum, data_iter \in DataIters,
          train_state \in {"default", "fresh", "reused"} :
          LET states == IF train_state = "fresh"
                        THEN [ep_train_states EXCEPT !.caller = TrainState]
                        ELSE ep_train_states
          IN  /\ ep_mode' = mode
              /\ ep_accum_iter' = accum_iter
              /\ ep_data_iter' = data_iter
              /\ ep_ts_ref' = IF train_state = "default" THEN "default" ELSE "caller"
              /\ ep_train_states' = states
              /\ ep_entry' = [states |-> states, grad |-> ep_grad]
    /\ ep_ncalls' = ep_ncalls + 1
    /\ ep_i' = 0 /\ ep_total_tokens' = 0 /\ ep_total_loss' = 0 /\ ep_tokens' = 0
    /\ ep_n_accum' = 0
    /\ ep_log' = <<>>
    /\ ep_pc' = "loop"
    /\ UNCHANGED <<ep_grad, ep_ret, notEpoch>>

\* One iteration of the loop: batch i of data_iter.
RunEpochBatch ==
    /\ ep_pc = "loop"
    /\ ep_i < Len(ep_data_iter)
    /\ LET i == ep_i
           batch == ep_data_iter[i + 1]
           training == is_training(ep_mode)
           stepping == training /\ steps_optimizer(i, ep_accum_iter)
           reporting == i % ReportEvery = 1 /\ training
           ts == ep_train_states[ep_ts_ref]
       IN  /\ ep_log' = ep_log
                \o <<Call("forward", i, 0), Call("loss_compute", i, 0)>>
                \o (IF training THEN train_calls(i, ep_accum_iter, ep_grad) ELSE <<>>)
                \o (IF reporting THEN <<Call("print", i, 0)>> ELSE <<>>)
           /\ ep_grad' = IF ~training THEN ep_grad
                         ELSE IF stepping THEN 0 ELSE ep_grad + 1
           /\ ep_train_states' =
                IF ~training THEN ep_train_states
                ELSE [ep_train_states EXCEPT ![ep_ts_ref] =
                        [step |-> ts.step + 1,
                         samples |-> ts.samples + batch.rows,
                         tokens |-> ts.tokens + batch.ntokens,
                         accum_step |-> ts.accum_step + (IF stepping THEN 1 ELSE 0)]]
           /\ ep_n_accum' = ep_n_accum + (IF stepping THEN 1 ELSE 0)
           /\ ep_total_loss' = ep_total_loss + batch.loss
           /\ ep_total_tokens' = ep_total_tokens + batch.ntokens
           /\ ep_tokens' = IF reporting THEN 0 ELSE ep_tokens + batch.ntokens
    /\ ep_i' = ep_i + 1
    /\ UNCHANGED <<ep_pc, ep_ncalls, ep_mode, ep_accum_iter, ep_data_iter,
                   ep_ts_ref, ep_entry, ep_ret, notEpoch>>

\* data_iter is exhausted: the return statement evaluates
\* total_loss / total_tokens and hands it back with train_state.
RunEpochReturn ==
    /\ ep_pc = "loop"
    /\ ep_i = Len(ep_data_iter)
    /\ LET q == Divide(ep_total_loss, ep_total_tokens)
       IN  ep_ret' = [err |-> q.err, num |-> q.num, den |-> q.den,
                      train_state |-> ep_ts_ref]
    /\ ep_pc' = "returned"
    /\ UNCHANGED <<ep_ncalls, ep_mode, ep_accum_iter, ep_data_iter, ep_ts_ref,
                   ep_train_states, ep_i, ep_total_tokens, ep_total_loss,
                   ep_tokens, ep_n_accum, ep_grad, ep_log, ep_entry, notEpoch>>

\* The frame of the finished call is dropped: its arguments and locals are
\* gone; the TrainState objects and the accumulated gradients stay.
RunEpochExit ==
    /\ ep_pc = "returned"
    /\ ep_pc' = "ready"
    /\ ep_mode' = "none" /\ ep_accum_iter' = 1 /\ ep_data_iter' = <<>>
    /\ ep_ts_ref' = "default"
    /\ ep_i' = 0 /\ ep_total_tokens' = 0 /\ ep_total_loss' = 0 /\ ep_tokens' = 0
    /\ ep_n_accum' = 0 /\ ep_log' = <<>>
    /\ ep_entry' = [states |-> ep_train_states, grad |-> ep_grad]
    /\ ep_ret' = [err |-> "none", num |-> 0, den |-> 1, train_state |-> "default"]
    /\ UNCHANGED <<ep_ncalls, ep_train_states, ep_grad, notEpoch>>

EpochNext == RunEpochCall \/ RunEpochBatch \/ RunEpochReturn \/ RunEpochExit

SpecEpoch == EpochInit /\ [][EpochNext]_vars

RECURSIVE SumLoss(_)
SumLoss(batches) ==
    IF batches = <<>> THEN 0 ELSE Head(batches).loss + SumLoss(Tail(batches))

RECURSIVE SumTokens(_)
SumTokens(batches) ==
    IF batches = <<>> THEN 0 ELSE Head(batches).ntokens + SumTokens(Tail(batches))

\* How many calls of op the current run_epoch call has made.
CountCalls(op) == Cardinality({k \in 1..Len(ep_log) : ep_log[k].op = op})

InEpoch == ep_pc \in {"loop", "returned"}

TrainingModes == {"train", "train+log"}

\* C5: in a training mode, after each batch of the epoch: scheduler.step has
\* been called exactly once per batch consumed (n times when the epoch
\* returns); optimizer.step has been called for exactly the batches i with
\* i % accum_iter = 0, once each, so successive optimizer steps are
\* accum_iter batches apart; every optimizer.step is immediately followed by
\* zero_grad and every zero_grad immediately follows an optimizer.step.
Thm_C5_StepCadence ==
    (InEpoch /\ ep_mode \in TrainingModes) =>
        /\ CountCalls("scheduler.step") = ep_i
        /\ \A i \in 0..(ep_i - 1) :
              Cardinality({k \in 1..Len(ep_log) : ep_log[k].op = "scheduler.step"
                                                   /\ ep_log[k].i = i}) = 1
        /\ \A i \in 0..(ep_i - 1) :
              Cardinality({k \in 1..Len(ep_log) : ep_log[k].op = "optimizer.step"
                                                   /\ ep_log[k].i = i})
                = IF i % ep_accum_iter = 0 THEN 1 ELSE 0
        /\ ep_pc = "returned" => CountCalls("scheduler.step") = Len(ep_data_iter)
        /\ \A k \in 1..Len(ep_log) :
              /\ ep_log[k].op = "optimizer.step"
                    => (k < Len(ep_log) /\ ep_log[k + 1].op = "zero_grad")
              /\ ep_log[k].op = "zero_grad"
                    => (k > 1 /\ ep_log[k - 1].op = "optimizer.step")

\* A training epoch of three batches with accum_iter = 2 has returned after
\* two optimizer steps (batches 0 and 2) and three scheduler steps.
Wit_C5_ThreeBatchesTwoSteps ==
    /\ ep_pc = "returned" /\ ep_mode = "train" /\ ep_accum_iter = 2
    /\ Len(ep_data_iter) = 3
    /\ CountCalls("optimizer.step") = 2
    /\ CountCalls("zero_grad") = 2
    /\ CountCalls("scheduler.step") = 3

\* C6: with accum_iter = k every optimizer.step call is made with the summed
\* gradients of k batches accumulated since the previous zero_grad.
Claim_C6_StepAppliesKBatches ==
    (InEpoch /\ ep_mode \in TrainingModes) =>
        \A k \in 1..Len(ep_log) :
            ep_log[k].op = "optimizer.step" => ep_log[k].grad = ep_accum_iter

\* The first batch of an epoch with accum_iter = 2 has stepped the optimizer
\* on the gradients of that one batch.
Wit_C6_FirstStepOneBatch ==
    /\ ep_pc = "loop" /\ ep_mode = "train" /\ ep_accum_iter = 2 /\ ep_i = 1
    /\ ep_ncalls = 1
    /\ \E k \in 1..Len(ep_log) :
          ep_log[k].op = "optimizer.step" /\ ep_log[k].grad = 1

\* C7: in a mode other than "train"/"train+log" run_epoch calls only the
\* forward pass and the loss computation (never backward, optimizer.step,
\* zero_grad or scheduler.step), leaves every TrainState counter and the
\* accumulated gradients as it found them, keeps total_loss and total_tokens
\* equal to the sums over the batches consumed, and returns the quotient of
\* the sums over all batches of the epoch (the division fails when the
\* epoch had no batch).
Thm_C7_EvalOnlyForward ==
    (InEpoch /\ ep_mode \notin TrainingModes) =>
        /\ \A k \in 1..Len(ep_log) : ep_log[k].op \in {"forward", "loss_compute"}
        /\ CountCalls("forward") = ep_i
        /\ CountCalls("loss_compute") = ep_i
        /\ ep_train_states = ep_entry.states
        /\ ep_grad = ep_entry.grad
        /\ ep_total_loss = SumLoss(SubSeq(ep_data_iter, 1, ep_i))
        /\ ep_total_tokens = SumTokens(SubSeq(ep_data_iter, 1, ep_i))
        /\ ep_pc = "returned" =>
              /\ ep_i = Len(ep_data_iter)
              /\ ep_ret.train_state = ep_ts_ref
              /\ IF ep_data_iter = <<>>
                 THEN ep_ret.err = "ZeroDivisionError"
                 ELSE /\ ep_ret.err = "none"
                      /\ ep_ret.num = SumLoss(ep_data_iter)
                      /\ ep_ret.den = SumTokens(ep_data_iter)

\* An evaluation epoch of three batches of both kinds has returned, after a
\* training epoch that left counters and gradients behind.
Wit_C7_EvalAfterTraining ==
    /\ ep_pc = "returned" /\ ep_mode = "eval" /\ ep_ncalls = 2
    /\ Len(ep_data_iter) = 3
    /\ ep_data_iter[1] # ep_data_iter[2]
    /\ ep_ts_ref = "default"
    /\ ep_entry.states.default.step > 0
    /\ ep_entry.grad > 0
    /\ ep_ret.err = "none" /\ ep_ret.num = SumLoss(ep_data_iter)

RECURSIVE SumRows(_)
SumRows(batches) ==
    IF batches = <<>> THEN 0 ELSE Head(batches).rows + SumRows(Tail(batches))

\* C17: the train_state a training-mode run_epoch call returns has step
\* equal to the number of batches of that call, accum_step equal to the
\* number of optimizer steps of that call, and samples equal to the number
\* of source rows of that call.
Claim_C17_CountersPerCall ==
    (ep_pc = "returned" /\ ep_mode \in TrainingModes) =>
        LET ts == ep_train_states[ep_ret.train_state]
        IN  /\ ts.step = Len(ep_data_iter)
            /\ ts.accum_step = CountCalls("optimizer.step")
            /\ ts.samples = SumRows(ep_data_iter)

\* A second training call that was given no train_state has returned the
\* default instance, which still counts the batches of the first call.
Wit_C17_DefaultKeepsCounting ==
    /\ ep_pc = "returned" /\ ep_mode = "train" /\ ep_ncalls = 2
    /\ ep_ret.train_state = "default"
    /\ ep_entry.states.default.step = 2
    /\ Len(ep_data_iter) = 1
    /\ ep_train_states.default.step = 3

-----------------------------------------------------------------------------
(* greedy_decode.                                                          *)

\* The largest max_len the model draws.
MaxDecodeLen == 4

\* The tokens the model's argmax may pick at a step: pad, start, end ('$')
\* and a digit ('0').
NextWords == {pad_symbol, start_symbol, to_token(OrdDollar).val, to_token(Ord0).val}

\* subsequent_mask(size)[0]: triu(ones, diagonal=1) holds 1 where j > i, and
\* the mask is where that is 0.
subsequent_mask(size) ==
    [i \in 1..size |-> [j \in 1..size |->
        (IF j - i >= 1 THEN 1 ELSE 0) = 0]]

\* (ys != pad) & subsequent_mask(ys.size(-1)): the [1, len] padding mask
\* broadcast over the rows of the [1, len, len] causal mask.
decode_mask(ys, pad) ==
    [i \in 1..Len(ys) |-> [j \in 1..Len(ys) |->
        (ys[j] # pad) /\ subsequent_mask(Len(ys))[i][j]]]

\* A loop that also ends once the end token has been appended.
more_steps_until_end(i, max_len, ys) ==
    i < max_len - 1 /\ ys[Len(ys)] # to_token(OrdDollar).val

\* for i in range(max_len - 1): whether iteration i runs.
more_steps(i, max_len, ys) == i < max_len - 1

\* The arguments: every caller passes max_len = src.shape[1] or
\* src.shape[1] + 10, which is at least 1, start_symbol 0 or 1, and the
\* default pad.
DecInit ==
    /\ gd_pc = "start"
    /\ gd_max_len \in 1..MaxDecodeLen
    /\ gd_start_symbol \in {pad_symbol, start_symbol}
    /\ gd_pad = pad_symbol
    /\ gd_memory = 0 /\ gd_encodes = 0 /\ gd_ys = <<>> /\ gd_i = 0
    /\ gd_ys_mask = <<>> /\ gd_decodes = <<>>
    /\ TokIdle /\ GenIdle /\ EpochIdle /\ LsIdle /\ BatchIdle /\ RateIdle /\ DriverIdle /\ DatasetIdle

\* memory = model.encode(src, src_mask); ys = [[start_symbol]]
GreedyEncode ==
    /\ gd_pc = "start"
    /\ gd_encodes' = gd_encodes + 1
    /\ gd_memory' = gd_encodes + 1
    /\ gd_ys' = <<gd_start_symbol>>
    /\ gd_i' = 0
    /\ gd_pc' = "loop"
    /\ UNCHANGED <<gd_max_len, gd_start_symbol, gd_pad, gd_ys_mask, gd_decodes,
                   notDec>>

\* One iteration of the loop: mask, decode, argmax at the last position,
\* append.
GreedyStep ==
    /\ gd_pc = "loop"
    /\ more_steps(gd_i, gd_max_len, gd_ys)
    /\ \E next_word \in NextWords :
          /\ gd_ys_mask' = decode_mask(gd_ys, gd_pad)
          /\ gd_decodes' = Append(gd_decodes,
                [memory |-> gd_memory, ys |-> gd_ys, next_word |-> next_word])
          /\ gd_ys' = gd_ys \o <<next_word>>
    /\ gd_i' = gd_i + 1
    /\ UNCHANGED <<gd_pc, gd_max_len, gd_start_symbol, gd_pad, gd_memory,
                   gd_encodes, notDec>>

\* return ys
GreedyReturn ==
    /\ gd_pc = "loop"
    /\ ~more_steps(gd_i, gd_max_len, gd_ys)
    /\ gd_pc' = "returned"
    /\ UNCHANGED <<gd_max_len, gd_start_symbol, gd_pad, gd_memory, gd_encodes,
                   gd_ys, gd_i, gd_ys_mask, gd_decodes, notDec>>

DecNext == GreedyEncode \/ GreedyStep \/ GreedyReturn

SpecDecode == DecInit /\ [][DecNext]_vars

\* C8 (for max_len >= 1): greedy_decode starts from an output holding only the start symbol,
\* extends it by one token per step (the token taken from that step's decode
\* call), makes exactly max_len - 1 steps whatever tokens are emitted, and
\* returns a sequence of length max_len whose first token is the start
\* symbol; model.encode is called exactly once and every decode call is
\* given the memory it returned.
Thm_C8_GreedyDecodeLength ==
    /\ gd_pc \in {"loop", "returned"} =>
          /\ gd_encodes = 1
          /\ gd_memory = 1
          /\ Len(gd_ys) = 1 + gd_i
          /\ gd_ys[1] = gd_start_symbol
          /\ gd_i <= gd_max_len - 1
          /\ Len(gd_decodes) = gd_i
          /\ \A k \in 1..Len(gd_decodes) :
                /\ gd_decodes[k].memory = gd_memory
                /\ gd_decodes[k].ys = SubSeq(gd_ys, 1, k)
                /\ gd_ys[k + 1] = gd_decodes[k].next_word
    /\ (gd_pc = "loop" /\ gd_i = 0) => gd_ys = <<gd_start_symbol>>
    /\ gd_pc = "returned" =>
          /\ gd_i = gd_max_len - 1
          /\ Len(gd_ys) = gd_max_len

\* A decode with max_len = 4 has returned four tokens although the end token
\* was emitted at the first step.
Wit_C8_ContinuesPastEnd ==
    /\ gd_pc = "returned" /\ gd_max_len = 4 /\ gd_start_symbol = start_symbol
    /\ Len(gd_ys) = 4
    /\ gd_ys[2] = to_token(OrdDollar).val
    /\ gd_ys[4] = to_token(Ord0).val
    /\ Len(gd_decodes) = 3

-----------------------------------------------------------------------------
(* LabelSmoothing.  Probabilities are exact fractions <<numerator,          *)
(* denominator>>, compared by cross-multiplication.                        *)

\* The largest size, the most rows of a forward call, and the denominator
\* of the smoothing values drawn (0, 1/SmoothDen, ..., 1).
MaxSize == 4
MaxTargets == 2
SmoothDen == 4

RatEq(a, b) == a[1] * b[2] = b[1] * a[2]

RatAdd(a, b) == <<a[1] * b[2] + b[1] * a[2], a[2] * b[2]>>

RatSub(a, b) == <<a[1] * b[2] - b[1] * a[2], a[2] * b[2]>>

\* a / k for an integer k # 0
RatDivInt(a, k) == <<a[1], a[2] * k>>

RatZero == <<0, 1>>

RatOne == <<1, 1>>

RECURSIVE RatSum(_)
RatSum(row) == IF row = <<>> THEN RatZero ELSE RatAdd(Head(row), RatSum(Tail(row)))

\* LabelSmoothing.__init__: the fields are stored as given; nothing is
\* checked.
LabelSmoothing(size, padding_idx, smoothing) ==
    [constructed |-> TRUE, size |-> size, padding_idx |-> padding_idx,
     confidence |-> RatSub(RatOne, smoothing), smoothing |-> smoothing,
     true_dist |-> <<>>]

\* A row built without true_dist[:, padding_idx] = 0.
true_dist_row_keeps_pad(self, t) ==
    LET filled == [c \in 1..self.size |->
                      RatDivInt(self.smoothing, self.size - 2)]
        scattered == [filled EXCEPT ![t + 1] = self.confidence]
    IN  IF t = self.padding_idx
        THEN [c \in 1..self.size |-> RatZero]
        ELSE scattered

\* One row of true_dist for the target t, in the order of forward: fill_,
\* scatter_ of the confidence, the padding column set to 0, and
\* index_fill_ of the rows whose target is the padding index.
true_dist_row(self, t) ==
    LET filled == [c \in 1..self.size |->
                      RatDivInt(self.smoothing, self.size - 2)]
        scattered == [filled EXCEPT ![t + 1] = self.confidence]
        padded == [scattered EXCEPT ![self.padding_idx + 1] = RatZero]
    IN  IF t = self.padding_idx
        THEN [c \in 1..self.size |-> RatZero]
        ELSE padded

\* LabelSmoothing.forward up to self.true_dist: the error raised, or the
\* soft targets.
forward(self, cols, target) ==
    IF cols # self.size
    THEN [err |-> "AssertionError", true_dist |-> <<>>]
    ELSE IF self.size - 2 = 0
    THEN [err |-> "ZeroDivisionError", true_dist |-> <<>>]
    ELSE IF \E r \in 1..Len(target) : target[r] >= cols
    THEN [err |-> "RuntimeError", true_dist |-> <<>>]
    ELSE [err |-> "none",
          true_dist |-> [r \in 1..Len(target) |-> true_dist_row(self, target[r])]]

LsInit ==
    /\ ls_pc = "start"
    /\ ls_size \in 0..MaxSize
    /\ ls_padding_idx \in 0..Max(ls_size - 1, 0)
    /\ ls_smoothing \in 0..SmoothDen
    /\ ls_self = NoCriterion /\ ls_cols = 0 /\ ls_target = <<>> /\ ls_err = "none"
    /\ TokIdle /\ GenIdle /\ EpochIdle /\ DecIdle /\ BatchIdle /\ RateIdle /\ DriverIdle /\ DatasetIdle

\* crit = LabelSmoothing(size, padding_idx, smoothing)
LsConstruct ==
    /\ ls_pc = "start"
    /\ ls_self' = LabelSmoothing(ls_size, ls_padding_idx, <<ls_smoothing, SmoothDen>>)
    /\ ls_pc' = "constructed"
    /\ UNCHANGED <<ls_size, ls_padding_idx, ls_smoothing, ls_cols, ls_target,
                   ls_err, notLs>>

\* crit(x, target), with x of cols columns and one target per row.
LsForward ==
    /\ ls_pc = "constructed"
    /\ \E cols \in {ls_self.size, ls_self.size + 1}, n \in 1..MaxTargets :
       \E target \in [1..n -> 0..Max(cols - 1, 0)] :
          LET r == forward(ls_self, cols, target)
          IN  /\ ls_cols' = cols
              /\ ls_target' = target
              /\ ls_err' = r.err
              /\ ls_self' = IF r.err = "none"
                            THEN [ls_self EXCEPT !.true_dist = r.true_dist]
                            ELSE ls_self
              /\ ls_pc' = IF r.err = "none" THEN "forwarded" ELSE "failed"
    /\ UNCHANGED <<ls_size, ls_padding_idx, ls_smoothing, notLs>>

LsNext == LsConstruct \/ LsForward

SpecSmoothing == LsInit /\ [][LsNext]_vars

\* C9: LabelSmoothing(size, padding_idx, smoothing) with size < 3 fails at
\* construction time: no criterion object is produced.
Claim_C9_SmallSizeRejected ==
    (ls_pc # "start" /\ ls_size < 3) => ~ls_self.constructed

\* A criterion of size 2 has been constructed; its first forward call fails
\* on the division by size - 2.
Wit_C9_SizeTwoConstructed ==
    /\ ls_size = 2 /\ ls_self.constructed /\ ls_self.size = 2
    /\ ls_pc = "failed" /\ ls_err = "ZeroDivisionError"

\* C10: after a forward call, every row of true_dist whose target is the
\* padding index is all zero; every other row holds 1 - smoothing at the
\* target class, 0 in the padding column, smoothing / (size - 2) at every
\* other class, and sums to 1.
Thm_C10_SoftTargets ==
    ls_pc = "forwarded" =>
        /\ Len(ls_self.true_dist) = Len(ls_target)
        /\ \A r \in 1..Len(ls_target) :
              LET row == ls_self.true_dist[r]
                  t == ls_target[r]
              IN  /\ Len(row) = ls_size
                  /\ IF t = ls_padding_idx
                     THEN \A c \in 1..ls_size : RatEq(row[c], RatZero)
                     ELSE /\ RatEq(row[t + 1], <<SmoothDen - ls_smoothing, SmoothDen>>)
                          /\ RatEq(row[ls_padding_idx + 1], RatZero)
                          /\ \A c \in 1..ls_size :
                                (c # t + 1 /\ c # ls_padding_idx + 1) =>
                                    RatEq(row[c], <<ls_smoothing,
                                                    SmoothDen * (ls_size - 2)>>)
                          /\ RatEq(RatSum(row), RatOne)

\* A forward call on size 4 with smoothing 1/4 has built one row for a
\* padding target and one for another target.
Wit_C10_PadAndClassRows ==
    /\ ls_pc = "forwarded" /\ ls_size = 4 /\ ls_smoothing = 1
    /\ ls_padding_idx = 0
    /\ ls_target = <<0, 2>>
    /\ RatEq(ls_self.true_dist[2][3], <<3, 4>>)
    /\ RatEq(ls_self.true_dist[2][2], <<1, 8>>)

-----------------------------------------------------------------------------
(* padding_batch and Batch, as dataset_range uses them to turn the rows it *)
(* has collected into one Batch.  A tensor is modelled by its nested list. *)

MaxRows == 2        \* rows of a batch
MaxItemLen == 3     \* tokens of one row before padding

\* The largest element of a non-empty set of integers.
MaxOf(S) == CHOOSE m \in S : \A x \in S : x <= m

\* A padding_batch that appends no pad ids.
padding_batch_ragged(batch) ==
    [k \in 1..Len(batch) |->
        <<to_token(OrdCaret).val>> \o batch[k] \o <<to_token(OrdDollar).val>>]

\* padding_batch(batch): '^' + item + '$' + pad ids up to the longest item.
padding_batch(batch) ==
    LET length == MaxOf({Len(batch[k]) : k \in 1..Len(batch)})
    IN  [k \in 1..Len(batch) |->
            <<to_token(OrdCaret).val>> \o batch[k] \o <<to_token(OrdDollar).val>>
                \o Repeat(pad_symbol, length - Len(batch[k]))]

\* torch.triu(ones, diagonal=0) in place of diagonal=1.
make_std_mask_strict(tgt, pad) ==
    [b \in 1..Len(tgt) |-> [i \in 1..Len(tgt[1]) |-> [j \in 1..Len(tgt[1]) |->
        (tgt[b][j] # pad) /\ (IF j - i >= 0 THEN 1 ELSE 0) = 0]]]

\* Batch.make_std_mask(tgt, pad): the [B, 1, L] padding mask and the
\* [1, L, L] causal mask, broadcast to [B, L, L].
make_std_mask(tgt, pad) ==
    [b \in 1..Len(tgt) |-> [i \in 1..Len(tgt[1]) |-> [j \in 1..Len(tgt[1]) |->
        (tgt[b][j] # pad) /\ subsequent_mask(Len(tgt[1]))[i][j]]]]

\* (row != pad).sum() of one row.
RECURSIVE CountNotPad(_, _)
CountNotPad(row, pad) ==
    IF row = <<>> THEN 0
    ELSE (IF Head(row) # pad THEN 1 ELSE 0) + CountNotPad(Tail(row), pad)

\* (tensor != pad).sum() of a [B, L] tensor.
RECURSIVE SumNotPad(_, _)
SumNotPad(rows, pad) ==
    IF rows = <<>> THEN 0
    ELSE CountNotPad(Head(rows), pad) + SumNotPad(Tail(rows), pad)

\* Batch(src, tgt, pad) with a target, as every caller of this file builds it.
Batch(src, tgt, pad) ==
    LET tgt_in == [b \in 1..Len(tgt) |-> SubSeq(tgt[b], 1, Len(tgt[b]) - 1)]
        tgt_y == [b \in 1..Len(tgt) |-> SubSeq(tgt[b], 2, Len(tgt[b]))]
    IN  [src |-> src,
         src_mask |-> [b \in 1..Len(src) |->
                          <<[j \in 1..Len(src[b]) |-> src[b][j] # pad]>>],
         tgt |-> tgt_in,
         tgt_y |-> tgt_y,
         tgt_mask |-> make_std_mask(tgt_in, pad),
         ntokens |-> SumNotPad(tgt_y, pad)]

\* The token lists of the rows: to_tokens of a problem text (here a run of
\* the digit 1) and of a target over the characters 7 and B.
SrcItems == {Repeat(to_token(Ord0 + 1).val, n) : n \in {1, MaxItemLen}}
TgtTokens == {to_token(Ord0 + 7).val, to_token(OrdA + 1).val}
TgtItems == UNION {[1..n -> TgtTokens] : n \in 1..MaxItemLen}

BatchInit ==
    /\ bt_pc = "start"
    /\ \E rows \in 1..MaxRows :
          /\ bt_src_batch \in [1..rows -> SrcItems]
          /\ bt_tgt_batch \in [1..rows -> TgtItems]
    /\ bt_data = <<>> /\ bt_tgt_data = <<>> /\ bt_batch = NoBatch
    /\ TokIdle /\ GenIdle /\ EpochIdle /\ DecIdle /\ LsIdle /\ RateIdle /\ DriverIdle /\ DatasetIdle

\* data = padding_batch(src_batch); tgt_data = padding_batch(tgt_batch).
PaddingBatch ==
    /\ bt_pc = "start"
    /\ bt_data' = padding_batch(bt_src_batch)
    /\ bt_tgt_data' = padding_batch(bt_tgt_batch)
    /\ bt_pc' = "padded"
    /\ UNCHANGED <<bt_src_batch, bt_tgt_batch, bt_batch>>
    /\ UNCHANGED notBatch

\* Batch(src, tgt, 0).
MakeBatch ==
    /\ bt_pc = "padded"
    /\ bt_batch' = Batch(bt_data, bt_tgt_data, 0)
    /\ bt_pc' = "batch"
    /\ UNCHANGED <<bt_src_batch, bt_tgt_batch, bt_data, bt_tgt_data>>
    /\ UNCHANGED notBatch

BatchNext == PaddingBatch \/ MakeBatch

SpecBatch == BatchInit /\ [][BatchNext]_vars

\* C11: subsequent_mask(n) is true exactly at the entries (i, j) with
\* j <= i, for every n >= 1; the Batch built from a target has tgt the
\* target without its last token, tgt_y the target without its first token,
\* tgt_mask[b][i][j] = (tgt[b][j] != pad and j <= i), and ntokens the number
\* of non-pad entries of tgt_y.
Thm_C11_TargetMask ==
    bt_pc = "batch" =>
        LET B == Len(bt_tgt_data)
            L == Len(bt_tgt_data[1]) - 1
            b_ == bt_batch
        IN  /\ \A n \in 1..(MaxItemLen + 2) : \A i, j \in 1..n :
                  subsequent_mask(n)[i][j] = (j <= i)
            /\ Len(b_.tgt) = B /\ Len(b_.tgt_y) = B /\ Len(b_.tgt_mask) = B
            /\ \A b \in 1..B :
                  /\ Len(b_.tgt[b]) = L /\ Len(b_.tgt_y[b]) = L
                  /\ \A j \in 1..L :
                        /\ b_.tgt[b][j] = bt_tgt_data[b][j]
                        /\ b_.tgt_y[b][j] = bt_tgt_data[b][j + 1]
                  /\ DOMAIN b_.tgt_mask[b] = 1..L
                  /\ \A i \in 1..L :
                        /\ DOMAIN b_.tgt_mask[b][i] = 1..L
                        /\ \A j \in 1..L :
                              b_.tgt_mask[b][i][j]
                                  = (b_.tgt[b][j] # 0 /\ j <= i)
            /\ b_.ntokens = Cardinality({<<b, j>> \in (1..B) \X (1..L) :
                                            b_.tgt_y[b][j] # 0})

\* A Batch whose second target row is two tokens shorter than the first: its
\* tgt keeps one pad id, which is masked on the diagonal as well, while the
\* first row sees its diagonal and not the entry above it.
Wit_C11_PadOnDiagonal ==
    /\ bt_pc = "batch"
    /\ Len(bt_tgt_batch) = 2
    /\ Len(bt_tgt_batch[1]) = 3 /\ Len(bt_tgt_batch[2]) = 1
    /\ bt_batch.tgt[2][4] = 0
    /\ ~bt_batch.tgt_mask[2][4][4]
    /\ bt_batch.tgt_mask[1][3][3]
    /\ ~bt_batch.tgt_mask[1][3][4]
    /\ bt_batch.ntokens = 6

\* C13: padding_batch puts the start token in front of every sequence and
\* the end token behind it and then pads with the pad id: all rows have the
\* length of the longest sequence + 2, pad ids occur only after the end
\* token, and the original tokens keep their order.
Thm_C13_PaddedRows ==
    bt_pc \in {"padded", "batch"} =>
        \A io \in {<<bt_src_batch, bt_data>>, <<bt_tgt_batch, bt_tgt_data>>} :
            LET batch == io[1]
                res == io[2]
                longest == MaxOf({Len(batch[k]) : k \in 1..Len(batch)})
            IN  /\ Len(res) = Len(batch)
                /\ \A k \in 1..Len(batch) :
                      LET n == Len(batch[k])
                      IN  /\ Len(res[k]) = longest + 2
                          /\ res[k][1] = 1
                          /\ \A m \in 1..n : res[k][m + 1] = batch[k][m]
                          /\ res[k][n + 2] = 2
                          /\ \A m \in 1..(longest + 2) :
                                res[k][m] = 0 <=> m > n + 2

\* Two target rows of lengths 3 and 1 have been padded: the second row is
\* start, token, end, pad, pad.
Wit_C13_ShortRowPadded ==
    /\ bt_pc = "padded"
    /\ Len(bt_tgt_batch) = 2
    /\ Len(bt_tgt_batch[1]) = 3 /\ Len(bt_tgt_batch[2]) = 1
    /\ bt_tgt_batch[1][1] # bt_tgt_batch[1][2]
    /\ bt_tgt_data[2] = <<1, bt_tgt_batch[2][1], 2, 0, 0>>
    /\ bt_tgt_data[1] = <<1>> \o bt_tgt_batch[1] \o <<2>>
-----------------------------------------------------------------------------
(* rate, the learning-rate factor LambdaLR asks for at step 0 (when it is  *)
(* constructed) and after every scheduler.step().  The powers -0.5 and     *)
(* -1.5 are irrational in general, so a positive real x is modelled by its *)
(* square x^2, an exact fraction <<numerator, denominator>>: min and < on  *)
(* positive reals are min and < on their squares, and the square of a      *)
(* product is the product of the squares.                                  *)

MaxModelSize == 2
MaxFactor == 2
MaxWarmup == 4
MaxStep == 8

RatLt(a, b) == a[1] * b[2] < b[1] * a[2]
RatMul(a, b) == <<a[1] * b[1], a[2] * b[2]>>
\* Python's min(a, b): b when b < a, else a.
RatMin(a, b) == IF RatLt(b, a) THEN b ELSE a

\* step ** (-0.5), squared.
inv_sqrt_branch(step) == <<1, step>>
\* step * warmup ** (-1.5), squared.
linear_branch(step, warmup) == <<step * step, warmup * warmup * warmup>>

\* A rate without the min: the warmup line at every step.
rate_linear(step, model_size, factor, warmup) ==
    LET s == IF step = 0 THEN 1 ELSE step
    IN  RatMul(<<factor * factor, 1>>,
               RatMul(<<1, model_size>>, linear_branch(s, warmup)))

\* rate(step, model_size, factor, warmup), squared.
rate(step, model_size, factor, warmup) ==
    LET s == IF step = 0 THEN 1 ELSE step
    IN  RatMul(<<factor * factor, 1>>,
               RatMul(<<1, model_size>>,
                      RatMin(inv_sqrt_branch(s), linear_branch(s, warmup))))

\* LambdaLR(optimizer, lr_lambda=lambda step: rate(step, ...)): the
\* constructor asks for rate(0, ...).
RateInit ==
    /\ rt_pc = "running"
    /\ rt_model_size \in 1..MaxModelSize
    /\ rt_factor \in 1..MaxFactor
    /\ rt_warmup \in 1..MaxWarmup
    /\ rt_step = 0
    /\ rt_lr = rate(0, rt_model_size, rt_factor, rt_warmup)
    /\ rt_prev = rt_lr
    /\ TokIdle /\ GenIdle /\ EpochIdle /\ DecIdle /\ LsIdle /\ BatchIdle /\ DriverIdle /\ DatasetIdle

\* scheduler.step(): the step count goes up by one and the rate is asked
\* for again.
SchedulerStep ==
    /\ rt_pc = "running"
    /\ rt_step < MaxStep
    /\ rt_step' = rt_step + 1
    /\ rt_prev' = rt_lr
    /\ rt_lr' = rate(rt_step + 1, rt_model_size, rt_factor, rt_warmup)
    /\ UNCHANGED <<rt_pc, rt_model_size, rt_factor, rt_warmup>>
    /\ UNCHANGED notRate

RateNext == SchedulerStep

SpecRate == RateInit /\ [][RateNext]_vars

\* The rate's square when the given branch is the minimum.
BranchRate(branch) ==
    RatMul(<<rt_factor * rt_factor, rt_model_size>>, branch)

\* C16 as stated: rate(0) = rate(1); the rate is strictly increasing over
\* the steps below warmup, where the linear branch is the minimum, and
\* strictly decreasing over the steps above warmup, where the step^-0.5
\* branch is the minimum.
Claim_C16_StrictlyMonotone ==
    rt_step >= 1 =>
        /\ rt_step = 1 => RatEq(rt_lr, rt_prev)
        /\ rt_step < rt_warmup =>
              /\ RatLt(rt_prev, rt_lr)
              /\ RatEq(rt_lr, BranchRate(linear_branch(rt_step, rt_warmup)))
        /\ rt_step - 1 > rt_warmup =>
              /\ RatLt(rt_lr, rt_prev)
              /\ RatEq(rt_lr, BranchRate(inv_sqrt_branch(rt_step)))

\* C16, amended: rate(0) = rate(1); from step 1 up to warmup the rate is
\* strictly increasing and the linear branch is the minimum (strictly
\* below the other one before warmup), and from warmup on the rate is
\* strictly decreasing and the step^-0.5 branch is the minimum (strictly
\* below the other one after warmup).
Thm_C16_WarmupThenDecay ==
    rt_step >= 1 =>
        /\ rt_step = 1 => RatEq(rt_lr, rt_prev)
        /\ (rt_step >= 2 /\ rt_step <= rt_warmup) => RatLt(rt_prev, rt_lr)
        /\ rt_step <= rt_warmup =>
              RatEq(rt_lr, BranchRate(linear_branch(rt_step, rt_warmup)))
        /\ rt_step < rt_warmup =>
              RatLt(linear_branch(rt_step, rt_warmup), inv_sqrt_branch(rt_step))
        /\ rt_step - 1 >= rt_warmup => RatLt(rt_lr, rt_prev)
        /\ rt_step >= rt_warmup =>
              RatEq(rt_lr, BranchRate(inv_sqrt_branch(rt_step)))
        /\ rt_step > rt_warmup =>
              RatLt(inv_sqrt_branch(rt_step), linear_branch(rt_step, rt_warmup))

\* With warmup 3 the scheduler has passed the steps 0 and 1 (equal rates),
\* climbed to step 3 and come down again to step 5.
Wit_C16_PastThePeak ==
    /\ rt_pc = "running" /\ rt_warmup = 3 /\ rt_step = 5
    /\ RatLt(rt_lr, rt_prev)
    /\ RatLt(rt_lr, rate(3, rt_model_size, rt_factor, rt_warmup))
    /\ RatEq(rate(0, rt_model_size, rt_factor, rt_warmup),
             rate(1, rt_model_size, rt_factor, rt_warmup))
    /\ RatLt(rate(1, rt_model_size, rt_factor, rt_warmup),
             rate(2, rt_model_size, rt_factor, rt_warmup))
-----------------------------------------------------------------------------
(* save_model, load_model and the two training drivers.  A state_dict is   *)
(* modelled by a version number: 0 for the freshly made model, -1 for what *)
(* an earlier run left in 999.pt, k for the parameters after the k-th      *)
(* training epoch of this run.  A path is a record of the parts its name   *)
(* is formatted from.  The epoch ranges of the drivers are cut short.      *)

MaxEpochs == 3           \* train_calculator_model: range(359, 1000)
MaxInner == 1            \* the support and query loops: range(1, 100)
OuterEpochs == {1, 2}    \* meta_learn_train_calculator_model: range(1, 10)
InitialBestLoss == 1000000

\* An evaluation loss: two ordinary values and one that is not below the
\* initial best_loss.
Losses == {1, 2, InitialBestLoss}

FreshParams == 0
PriorParams == 0 - 1

EpochPath(epoch) == [kind |-> "epoch", epoch |-> epoch, inner |-> 0]
SupportPath(epoch, inner) == [kind |-> "support", epoch |-> epoch, inner |-> inner]
QueryPath(epoch, inner) == [kind |-> "query", epoch |-> epoch, inner |-> inner]
BestPt == [kind |-> "best", epoch |-> 0, inner |-> 0]
\* "999.pt": the name the last epoch of range(359, 1000) saves to as well.
InitialPt == EpochPath(MaxEpochs)

Paths ==
    {EpochPath(e) : e \in 1..MaxEpochs}
        \cup {SupportPath(e, i) : e \in OuterEpochs, i \in 1..MaxInner}
        \cup {QueryPath(e, i) : e \in OuterEpochs, i \in 1..MaxInner}
        \cup {BestPt}

NoFile == [exists |-> FALSE, params |-> 0, writes |-> 0]

\* save_model(model, path): the folder afterwards.
save_model(model, path, files) ==
    [files EXCEPT ![path] = [exists |-> TRUE, params |-> model,
                             writes |-> files[path].writes + 1]]

\* A load_model that opens the file without looking for it first.
load_model_unguarded(model, path, files) ==
    IF path = NoPath THEN [err |-> "TypeError", model |-> model]
    ELSE IF files[path].exists
         THEN [err |-> "none", model |-> files[path].params]
    ELSE [err |-> "FileNotFoundError", model |-> model]

\* load_model(model, path): the model afterwards; os.path.isfile(None)
\* raises TypeError.
load_model(model, path, files) ==
    IF path = NoPath THEN [err |-> "TypeError", model |-> model]
    ELSE IF files[path].exists
         THEN [err |-> "none", model |-> files[path].params]
    ELSE [err |-> "none", model |-> model]

\* shutil.copyfile(src, dst) of an existing file.
copyfile(src, dst, files) ==
    [files EXCEPT ![dst] = [exists |-> TRUE, params |-> files[src].params,
                            writes |-> files[dst].writes + 1]]

\* A comparison that takes every epoch for the best one.
is_best_always(loss, best_loss) == TRUE

\* if loss < best_loss
is_best(loss, best_loss) == loss < best_loss

\* The folder holds 999.pt from an earlier run or nothing; the model is
\* freshly made.
DriverInit ==
    /\ ck_pc = "start"
    /\ ck_driver \in {"train_calculator_model", "meta_learn_train_calculator_model"}
    /\ \E prior \in BOOLEAN :
          ck_files = [p \in Paths |->
                         IF prior /\ p = InitialPt
                         THEN [exists |-> TRUE, params |-> PriorParams, writes |-> 0]
                         ELSE NoFile]
    /\ ck_model = FreshParams
    /\ ck_epoch = 0 /\ ck_phase = "none" /\ ck_inner = 0
    /\ ck_best_loss = 0 /\ ck_best_path = NoPath
    /\ ck_log = <<>> /\ ck_err = "none"
    /\ TokIdle /\ GenIdle /\ EpochIdle /\ DecIdle /\ LsIdle /\ BatchIdle /\ RateIdle /\ DatasetIdle

\* Up to the loop: load_model(model, "999.pt"), best_loss = 1000000,
\* best_path = None.
DriverStart ==
    /\ ck_pc = "start"
    /\ LET r == load_model(ck_model, InitialPt, ck_files)
       IN  /\ ck_model' = r.model
           /\ ck_err' = r.err
           /\ ck_pc' = IF r.err = "none" THEN "loop" ELSE "failed"
    /\ ck_best_loss' = InitialBestLoss
    /\ ck_best_path' = NoPath
    /\ ck_epoch' = 1
    /\ ck_phase' = IF ck_driver = "train_calculator_model" THEN "epoch" ELSE "support"
    /\ ck_inner' = IF ck_driver = "train_calculator_model" THEN 0 ELSE 1
    /\ UNCHANGED <<ck_driver, ck_files, ck_log>>
    /\ UNCHANGED notDriver

\* One pass of a loop body: the training run_epoch gives the model new
\* parameters, the evaluation run_epoch gives a loss or finds no batch and
\* divides by zero, the model is saved to model_path and the best loss and
\* path are updated.  The loop variables are left to the caller.
EpochBody(model_path) ==
    LET trained == Len(ck_log) + 1
    IN  /\ ck_model' = trained
        /\ \/ /\ ck_err' = "ZeroDivisionError"
              /\ ck_pc' = "failed"
              /\ UNCHANGED <<ck_files, ck_best_loss, ck_best_path, ck_log>>
           \/ \E loss \in Losses :
                 /\ ck_log' = Append(ck_log, [path |-> model_path, loss |-> loss])
                 /\ ck_files' = save_model(trained, model_path, ck_files)
                 /\ IF is_best(loss, ck_best_loss)
                    THEN ck_best_loss' = loss /\ ck_best_path' = model_path
                    ELSE UNCHANGED <<ck_best_loss, ck_best_path>>
                 /\ UNCHANGED <<ck_pc, ck_err>>

\* train_calculator_model: for epoch in range(359, 1000).
TrainEpoch ==
    /\ ck_pc = "loop" /\ ck_driver = "train_calculator_model"
    /\ ck_epoch <= MaxEpochs
    /\ EpochBody(EpochPath(ck_epoch))
    /\ ck_epoch' = ck_epoch + 1
    /\ UNCHANGED <<ck_driver, ck_phase, ck_inner>>
    /\ UNCHANGED notDriver

\* meta_learn_train_calculator_model: for support_epoch in range(1, 100).
SupportEpoch ==
    /\ ck_pc = "loop" /\ ck_driver = "meta_learn_train_calculator_model"
    /\ ck_epoch \in OuterEpochs /\ ck_phase = "support"
    /\ EpochBody(SupportPath(ck_epoch, ck_inner))
    /\ IF ck_inner < MaxInner
       THEN ck_inner' = ck_inner + 1 /\ UNCHANGED ck_phase
       ELSE ck_inner' = 1 /\ ck_phase' = "query"
    /\ UNCHANGED <<ck_driver, ck_epoch>>
    /\ UNCHANGED notDriver

\* meta_learn_train_calculator_model: for query_epoch in range(1, 100).
QueryEpoch ==
    /\ ck_pc = "loop" /\ ck_driver = "meta_learn_train_calculator_model"
    /\ ck_epoch \in OuterEpochs /\ ck_phase = "query"
    /\ EpochBody(QueryPath(ck_epoch, ck_inner))
    /\ IF ck_inner < MaxInner
       THEN ck_inner' = ck_inner + 1 /\ UNCHANGED <<ck_phase, ck_epoch>>
       ELSE ck_inner' = 1 /\ ck_phase' = "support" /\ ck_epoch' = ck_epoch + 1
    /\ UNCHANGED ck_driver
    /\ UNCHANGED notDriver

\* The loop is over.
LoopDone ==
    IF ck_driver = "train_calculator_model" THEN ck_epoch > MaxEpochs
    ELSE ck_epoch \notin OuterEpochs

\* After the loop: load_model(model, best_path) and
\* shutil.copyfile(best_path, "best.pt").
DriverFinish ==
    /\ ck_pc = "loop" /\ LoopDone
    /\ LET r == load_model(ck_model, ck_best_path, ck_files)
       IN  /\ ck_model' = r.model
           /\ ck_err' = r.err
           /\ IF r.err = "none"
              THEN /\ ck_files' = copyfile(ck_best_path, BestPt, ck_files)
                   /\ ck_pc' = "finished"
              ELSE /\ UNCHANGED ck_files
                   /\ ck_pc' = "failed"
    /\ UNCHANGED <<ck_driver, ck_epoch, ck_phase, ck_inner, ck_best_loss,
                   ck_best_path, ck_log>>
    /\ UNCHANGED notDriver

DriverNext ==
    DriverStart \/ TrainEpoch \/ SupportEpoch \/ QueryEpoch \/ DriverFinish

SpecDriver == DriverInit /\ [][DriverNext]_vars
\* C14: load_model with a path at which no file exists skips loading: no
\* error is raised and the parameters stay as they were; with a file there
\* the parameters become the saved ones, and the parameters loaded from a
\* checkpoint this run saved are the ones the model had when it was saved.
Thm_C14_LoadModel ==
    [][/\ ck_pc = "start" =>
             IF ck_files[InitialPt].exists
             THEN ck_model' = ck_files[InitialPt].params /\ ck_err' = "none"
             ELSE ck_model' = ck_model /\ ck_err' = "none" /\ ck_pc' = "loop"
       /\ (ck_pc = "loop" /\ ck_pc' = "finished") =>
             /\ ck_files[ck_best_path].exists
             /\ ck_model' = ck_files[ck_best_path].params
             /\ \E k \in 1..Len(ck_log) :
                   ck_log[k].path = ck_best_path /\ ck_model' = k]_vars

\* The meta-learning driver found no 999.pt, went on with the fresh
\* parameters, and has ended by loading back a checkpoint it saved.
Wit_C14_MissingThenRoundTrip ==
    /\ ck_pc = "finished" /\ ck_driver = "meta_learn_train_calculator_model"
    /\ ~ck_files[InitialPt].exists
    /\ ck_err = "none"
    /\ ck_best_path = QueryPath(1, 1)
    /\ ck_model = 2 /\ ck_files[QueryPath(1, 1)].params = 2

\* C15: every epoch's evaluation is followed by a checkpoint written to a
\* path that is written at most once in the run; when the driver finishes,
\* every epoch has been evaluated, best.pt is a copy of a checkpoint whose
\* evaluation loss is the minimum over all of them, and the model holds
\* that checkpoint's parameters.
Thm_C15_BestCheckpoint ==
    /\ \A p \in Paths : ck_files[p].writes <= 1
    /\ \A k \in 1..Len(ck_log) :
          ck_files[ck_log[k].path] = [exists |-> TRUE, params |-> k, writes |-> 1]
    /\ ck_pc = "finished" =>
          /\ Len(ck_log) = IF ck_driver = "train_calculator_model" THEN MaxEpochs
                           ELSE 2 * MaxInner * Cardinality(OuterEpochs)
          /\ \E k \in 1..Len(ck_log) :
                /\ ck_log[k].path = ck_best_path
                /\ \A m \in 1..Len(ck_log) : ck_log[k].loss <= ck_log[m].loss
                /\ ck_files[BestPt] = [exists |-> TRUE, params |-> k, writes |-> 1]
                /\ ck_model = k

\* train_calculator_model has finished after the losses 2, 1, 1: best.pt and
\* the model hold the second epoch's parameters, not the last one's.
Wit_C15_SecondEpochBest ==
    /\ ck_pc = "finished" /\ ck_driver = "train_calculator_model"
    /\ Len(ck_log) = 3
    /\ ck_log[1].loss = 2 /\ ck_log[2].loss = 1 /\ ck_log[3].loss = 1
    /\ ck_best_path = EpochPath(2)
    /\ ck_files[BestPt].params = 2
    /\ ck_model = 2
-----------------------------------------------------------------------------
(* dataset_range, the generator of training batches, and                   *)
(* items_range_generate.  sample and the values of random.random() are     *)
(* counted in halves: sample 0 is 0.0 and sample 1 is 0.5; a random value  *)
(* 0 lies in [0, 0.5) and a random value 1 in [0.5, 1).                    *)

MaxEnd == 2          \* the largest end argument
MaxBatchSize == 2

Samples == {0, 1}
RandomValues == {0, 1}
\* The count arguments, and the lists passed as x_items and y_items.
Counts == {[given |-> TRUE, val |-> n] : n \in {0, 1, 2}} \cup {NoCount}
XItems == {NoItems, [given |-> TRUE, items |-> <<5, 5>>]}
YItems == {NoItems, [given |-> TRUE, items |-> <<7, 12>>]}

\* items_range_generate(start, end, count): the lists it can return;
\* random.randrange of an empty range raises ValueError.
items_range_generate(start, end, count) ==
    IF count.given
    THEN IF count.val > 0 /\ end <= start
         THEN [err |-> "ValueError", lists |-> {}]
         ELSE [err |-> "none",
               lists |-> [1..count.val -> start..(end - 1)]]
    ELSE [err |-> "none",
          lists |-> {[k \in 1..(IF end > start THEN end - start ELSE 0) |->
                         start + k - 1]}]

\* A test that holds as soon as one row has been collected.
is_full_any(src_batch, batch_size) == Len(src_batch) >= 1

\* len(src_batch) == batch_size
is_full(src_batch, batch_size) == Len(src_batch) = batch_size

DatasetInit ==
    /\ ds_pc = "start"
    /\ \E start \in 0..1, end \in 1..MaxEnd, batch_size \in 1..MaxBatchSize,
          sample \in Samples, count \in Counts, x_items \in XItems,
          y_items \in YItems :
          ds_args = [start |-> start, end |-> end, batch_size |-> batch_size,
                     sample |-> sample, count |-> count, x_items |-> x_items,
                     y_items |-> y_items]
    /\ ds_x_items = <<>> /\ ds_y_items = <<>> /\ ds_xi = 0 /\ ds_yj = 0
    /\ ds_src_batch = <<>> /\ ds_tgt_batch = <<>> /\ ds_kept = <<>>
    /\ ds_yielded = <<>> /\ ds_err = "none"
    /\ TokIdle /\ GenIdle /\ EpochIdle /\ DecIdle /\ LsIdle /\ BatchIdle /\ RateIdle /\ DriverIdle

\* The generator's first lines: the lists to run over.
DatasetStart ==
    /\ ds_pc = "start"
    /\ LET a == ds_args
           gx == IF a.x_items.given
                 THEN [err |-> "none", lists |-> {a.x_items.items}]
                 ELSE items_range_generate(a.start, a.end, a.count)
           gy == IF a.y_items.given
                 THEN [err |-> "none", lists |-> {a.y_items.items}]
                 ELSE items_range_generate(a.start, a.end, a.count)
       IN  IF gx.err # "none" \/ gy.err # "none"
           THEN /\ ds_pc' = "failed"
                /\ ds_err' = "ValueError"
                /\ UNCHANGED <<ds_x_items, ds_y_items, ds_xi, ds_yj>>
           ELSE /\ ds_x_items' \in gx.lists
                /\ ds_y_items' \in gy.lists
                /\ ds_xi' = 1 /\ ds_yj' = 1
                /\ ds_pc' = "iterating"
                /\ UNCHANGED ds_err
    /\ UNCHANGED <<ds_args, ds_src_batch, ds_tgt_batch, ds_kept, ds_yielded>>
    /\ UNCHANGED notDataset

\* Whether the two loops have run out.
LoopsDone == ds_xi > Len(ds_x_items) \/ ds_y_items = <<>>

\* One pass of the inner loop body, for the pair at (ds_xi, ds_yj).
DatasetPair ==
    /\ ds_pc = "iterating" /\ ~LoopsDone
    /\ \E r \in RandomValues :
          IF r < ds_args.sample
          THEN UNCHANGED <<ds_src_batch, ds_tgt_batch, ds_kept, ds_yielded>>
          ELSE LET i == ds_x_items[ds_xi]
                   j == ds_y_items[ds_yj]
                   p == generate_one_pair1(i, j)
                   src_batch == Append(ds_src_batch, to_tokens(p.text))
                   tgt_batch == Append(ds_tgt_batch, to_tokens(p.target))
               IN  /\ ds_kept' = Append(ds_kept, [xi |-> ds_xi, yj |-> ds_yj,
                                                  i |-> i, j |-> j])
                   /\ IF is_full(src_batch, ds_args.batch_size)
                      THEN /\ ds_yielded' = Append(ds_yielded,
                                  Batch(padding_batch(src_batch),
                                        padding_batch(tgt_batch), 0))
                           /\ ds_src_batch' = <<>>
                           /\ ds_tgt_batch' = <<>>
                      ELSE /\ ds_src_batch' = src_batch
                           /\ ds_tgt_batch' = tgt_batch
                           /\ UNCHANGED ds_yielded
    /\ IF ds_yj < Len(ds_y_items)
       THEN ds_yj' = ds_yj + 1 /\ UNCHANGED ds_xi
       ELSE ds_yj' = 1 /\ ds_xi' = ds_xi + 1
    /\ UNCHANGED <<ds_pc, ds_args, ds_x_items, ds_y_items, ds_err>>
    /\ UNCHANGED notDataset

\* The loops have run out: the generator returns, and the rows collected
\* since the last yield are dropped with it.
DatasetEnd ==
    /\ ds_pc = "iterating" /\ LoopsDone
    /\ ds_pc' = "exhausted"
    /\ UNCHANGED <<ds_args, ds_x_items, ds_y_items, ds_xi, ds_yj, ds_src_batch,
                   ds_tgt_batch, ds_kept, ds_yielded, ds_err>>
    /\ UNCHANGED notDataset

DatasetNext == DatasetStart \/ DatasetPair \/ DatasetEnd

SpecDataset == DatasetInit /\ [][DatasetNext]_vars

\* The rows a batch of the given kept pairs is padded from.
SrcRows(pairs) ==
    [r \in 1..Len(pairs) |-> to_tokens(generate_one_pair1(pairs[r].i, pairs[r].j).text)]
TgtRows(pairs) ==
    [r \in 1..Len(pairs) |-> to_tokens(generate_one_pair1(pairs[r].i, pairs[r].j).target)]

\* C18: every yielded Batch has exactly batch_size rows, built from
\* consecutive non-skipped pairs in x-major order; each pair (each pass of
\* the loops) is in at most one batch; the rows left over at the end, fewer
\* than batch_size, are never yielded, so floor(kept / batch_size) batches
\* are yielded; and when x_items and y_items are passed, the loops run over
\* exactly those lists, whatever start, end and count are.
Thm_C18_FullBatchesOnly ==
    ds_pc \in {"iterating", "exhausted"} =>
        LET bs == ds_args.batch_size
            n == Len(ds_yielded)
        IN  /\ \A m \in 1..Len(ds_kept) :
                  /\ ds_kept[m].i = ds_x_items[ds_kept[m].xi]
                  /\ ds_kept[m].j = ds_y_items[ds_kept[m].yj]
                  /\ m > 1 =>
                        \/ ds_kept[m - 1].xi < ds_kept[m].xi
                        \/ /\ ds_kept[m - 1].xi = ds_kept[m].xi
                           /\ ds_kept[m - 1].yj < ds_kept[m].yj
            /\ n = Len(ds_kept) \div bs
            /\ \A k \in 1..n :
                  LET pairs == SubSeq(ds_kept, (k - 1) * bs + 1, k * bs)
                  IN  /\ Len(ds_yielded[k].src) = bs
                      /\ Len(ds_yielded[k].tgt) = bs
                      /\ ds_yielded[k] = Batch(padding_batch(SrcRows(pairs)),
                                               padding_batch(TgtRows(pairs)), 0)
            /\ Len(ds_src_batch) = Len(ds_kept) - n * bs
            /\ Len(ds_src_batch) < bs
            /\ (ds_args.x_items.given /\ ds_args.y_items.given) =>
                  /\ ds_x_items = ds_args.x_items.items
                  /\ ds_y_items = ds_args.y_items.items

\* dataset_range(1, 1, 2, 0.5, count=2, x_items=[5, 5], y_items=[7, 12]) has
\* run out: of its four pairs the second was skipped, the first and third
\* went into the one batch yielded, and the fourth was dropped at the end.
Wit_C18_TrailingRowDropped ==
    /\ ds_pc = "exhausted"
    /\ ds_args.start = 1 /\ ds_args.end = 1 /\ ds_args.count.given
    /\ ds_args.x_items.given /\ ds_args.y_items.given
    /\ ds_args.batch_size = 2
    /\ Len(ds_kept) = 3
    /\ ds_kept[1].yj = 1 /\ ds_kept[2].xi = 2 /\ ds_kept[2].yj = 1
    /\ ds_kept[3].yj = 2
    /\ Len(ds_yielded) = 1
    /\ Len(ds_yielded[1].src) = 2
    /\ Len(ds_src_batch) = 1
=============================================================================
